---- MODULE Spec2Model ----
(***************************************************************************)
(* Model of scripts/export_chromadb.py: the ChromaDBExporter class and the *)
(* main() driver.  Two specifications share the module:                    *)
(*   Spec         the driver run: path check, connect, list collections,   *)
(*                export every collection record by record, save, summary; *)
(*   SpecConvert  convert_to_conversation_chunk applied to one input drawn *)
(*                from a bounded set of source records.                    *)
(*                                                                         *)
(* Python values are modelled as tagged records [kind, s, n] so that TLC   *)
(* can compare values of different Python types.  Numeric timestamps are   *)
(* counted in whole days since the Unix epoch (86400 s units) because the  *)
(* largest epoch second datetime accepts does not fit TLC's integers; the  *)
(* calendar conversion is done on days, in UTC.                            *)
(***************************************************************************)
EXTENDS Integers, Sequences, FiniteSets, TLC

\* ------------------------------------------------------------------------
\* Bounds of the model
\* ------------------------------------------------------------------------
MaxParts == 2

MaxDocs == 3

\* ------------------------------------------------------------------------
\* Python values
\* ------------------------------------------------------------------------
Str(x) == [kind |-> "str", s |-> x, n |-> 0]

Num(d) == [kind |-> "num", s |-> "", n |-> d]

FloatNaN == [kind |-> "num", s |-> "nan", n |-> 0]

FloatInf == [kind |-> "num", s |-> "inf", n |-> 0]

EmptyList == [kind |-> "list", s |-> "", n |-> 0]

ListOf(x) == [kind |-> "list", s |-> x, n |-> 1]

NoneVal == [kind |-> "none", s |-> "", n |-> 0]

EmptyDict == [k \in {} |-> NoneVal]

\* a metadata entry of the store result: a dict, or None
MetaDict(f) == [kind |-> "dict", d |-> f]

MetaNone == [kind |-> "none", d |-> EmptyDict]

\* Python truthiness of a value (document or "", embedding or [])
Truthy(v) ==
    CASE v.kind = "none" -> FALSE
      [] v.kind = "str" -> v.s # ""
      [] v.kind = "list" -> v.n > 0
      [] OTHER -> TRUE

\* x or default
OrElse(v, default) == IF Truthy(v) THEN v ELSE default

\* ------------------------------------------------------------------------
\* datetime
\* ------------------------------------------------------------------------
\* datetime.MINYEAR, datetime.MAXYEAR
MINYEAR == 1

MAXYEAR == 9999

\* proleptic Gregorian date of a day number counted from 1970-01-01
CivilFromDays(days) ==
    LET z == days + 719468
        era == z \div 146097
        doe == z - era * 146097
        yoe == (doe - (doe \div 1460) + (doe \div 36524) - (doe \div 146096)) \div 365
        doy == doe - (365 * yoe + (yoe \div 4) - (yoe \div 100))
        mp == (5 * doy + 2) \div 153
        d == doy - ((153 * mp + 2) \div 5) + 1
        m == IF mp < 10 THEN mp + 3 ELSE mp - 9
        y == yoe + era * 400 + (IF m <= 2 THEN 1 ELSE 0)
    IN [y |-> y, m |-> m, d |-> d]

\* datetime.fromtimestamp(t).isoformat(): raises for nan, inf and for a
\* value whose year is outside MINYEAR..MAXYEAR; its fold detection also
\* converts the time one day earlier, which must not fall before MINYEAR
FromTimestampIso(t) ==
    IF t.s \in {"nan", "inf"}
    THEN [raised |-> TRUE, value |-> NoneVal]
    ELSE LET c == CivilFromDays(t.n)
             probe == CivilFromDays(t.n - 1)
         IN IF c.y < MINYEAR \/ c.y > MAXYEAR \/ probe.y < MINYEAR
            THEN [raised |-> TRUE, value |-> NoneVal]
            ELSE [raised |-> FALSE,
                  value |-> [kind |-> "str", s |-> "isoformat",
                             n |-> c.y * 10000 + c.m * 100 + c.d]]

\* datetime.now().isoformat()
NowIso == [kind |-> "str", s |-> "now", n |-> 0]

\* the lexical shape of the timestamp strings of the model
Tokens(x) ==
    CASE x = "2024-01-15T10:30:00" -> <<"DATE", "T", "TIME">>
      [] x = "2024-01-15T10:30:00Z" -> <<"DATE", "T", "TIME", "Z">>
      [] x = "2024-01-15T10:30:00+00:00" -> <<"DATE", "T", "TIME", "OFFSET">>
      [] x = "2024-01-15" -> <<"DATE">>
      [] x = "2024-01-15T10:30:00ZZ" -> <<"DATE", "T", "TIME", "Z", "Z">>
      [] x = "yesterday" -> <<"WORD">>
      [] OTHER -> << >>

\* timestamp.replace('Z', '+00:00')
ReplaceZ(toks) == [j \in DOMAIN toks |-> IF toks[j] = "Z" THEN "OFFSET" ELSE toks[j]]

\* datetime.fromisoformat accepts the token sequence
FromIsoformatOk(toks) ==
    toks \in {<<"DATE">>, <<"DATE", "T", "TIME">>, <<"DATE", "T", "TIME", "OFFSET">>}

\* ------------------------------------------------------------------------
\* convert_to_conversation_chunk
\* ------------------------------------------------------------------------
\* the keys the chunk's metadata block takes out of the source metadata
ReservedKeys ==
    {"repository", "branch", "files_modified", "tools_used", "outcome", "tags", "difficulty"}

\* metadata.get(key, default)
Get(md, key, default) == IF key \in DOMAIN md THEN md[key] ELSE default

\* lines 79-93: the timestamp of the chunk.  probe_intr: a KeyboardInterrupt
\* is delivered while line 87 runs; the bare except of line 88 catches it.
NormalizeTimestamp(timestamp, probe_intr) ==
    IF timestamp.kind = "num"
    THEN FromTimestampIso(timestamp)
    ELSE IF timestamp.kind = "str"
         THEN IF ~probe_intr /\ FromIsoformatOk(ReplaceZ(Tokens(timestamp.s)))
              THEN [raised |-> FALSE, value |-> timestamp]
              ELSE [raised |-> FALSE, value |-> NowIso]
         ELSE [raised |-> FALSE, value |-> NowIso]

\* line 111-113: the dict comprehension
ExtendedMetadataKeepsDifficulty(md) ==
    [k \in (DOMAIN md) \ (ReservedKeys \ {"difficulty"}) |-> md[k]]

ExtendedMetadata(md) == [k \in (DOMAIN md) \ ReservedKeys |-> md[k]]

\* the result of a call: the chunk, or raised = TRUE when the call raised
Raised == [raised |-> TRUE, chunk |-> NoneVal]

convert_to_conversation_chunk(doc_id, document, metadata, embedding, probe_intr) ==
    IF metadata.kind = "none"
    THEN Raised
    ELSE LET md == metadata.d
             ts == NormalizeTimestamp(Get(md, "timestamp", NoneVal), probe_intr)
         IN IF ts.raised
            THEN Raised
            ELSE [raised |-> FALSE,
                  chunk |->
                    [id |-> doc_id,
                     session_id |-> Get(md, "session_id", Str("migrated")),
                     timestamp |-> ts.value,
                     type |-> Get(md, "type", Str("discussion")),
                     content |-> OrElse(document, Str("")),
                     summary |-> Get(md, "summary", Str("")),
                     metadata |->
                       [repository |-> Get(md, "repository", Str("migrated")),
                        branch |-> Get(md, "branch", Str("main")),
                        files_modified |-> Get(md, "files_modified", EmptyList),
                        tools_used |-> Get(md, "tools_used", EmptyList),
                        outcome |-> Get(md, "outcome", Str("success")),
                        tags |-> Get(md, "tags", EmptyList),
                        difficulty |-> Get(md, "difficulty", Str("simple")),
                        extended_metadata |-> ExtendedMetadata(md)],
                     embeddings |-> OrElse(embedding, EmptyList),
                     related_chunks |-> Get(md, "related_chunks", EmptyList)]]

\* ------------------------------------------------------------------------
\* The source records the model draws from
\* ------------------------------------------------------------------------
\* the value the model gives a metadata key other than timestamp
SrcVal(k) ==
    CASE k = "session_id" -> Str("s1")
      [] k = "type" -> Str("decision")
      [] k = "summary" -> Str("a summary")
      [] k = "related_chunks" -> ListOf("c0")
      [] k = "repository" -> Str("repo")
      [] k = "branch" -> Str("dev")
      [] k = "files_modified" -> ListOf("a.py")
      [] k = "tools_used" -> ListOf("grep")
      [] k = "outcome" -> Str("failed")
      [] k = "tags" -> ListOf("bug")
      [] k = "difficulty" -> Str("hard")
      [] OTHER -> Str("x")

OtherKeySets ==
    {{}, {"session_id"}, {"custom"},
     {"session_id", "type", "summary", "related_chunks", "custom"}}

\* the key sets of the model: any set of reserved keys with one of OtherKeySets
KeySets == {R \cup O : R \in SUBSET ReservedKeys, O \in OtherKeySets}

\* day numbers: 1970-01-01, 2023-11-14 (epoch second 1700000000), the first
\* two days of the year 1 and the day before, the last day of the year 9999
\* and the day after
EpochDays == {0, 19675, -719161, -719162, -719163, 2932896, 2932897}

TimestampValues ==
    {Num(d) : d \in EpochDays}
    \cup {FloatNaN, FloatInf, [kind |-> "num", s |-> "bool", n |-> 0]}
    \cup {Str(x) : x \in {"2024-01-15T10:30:00", "2024-01-15T10:30:00Z", "2024-01-15",
                          "2024-01-15T10:30:00ZZ", "yesterday", ""}}
    \cup {NoneVal, EmptyList}

\* every dict over the keys of the model, with or without a timestamp
MetadataDicts ==
    UNION {{[k \in S |-> SrcVal(k)]} \cup
           {[k \in S \cup {"timestamp"} |-> IF k = "timestamp" THEN t ELSE SrcVal(k)] :
                t \in TimestampValues} : S \in KeySets}

\* document and embedding are both stored or both None
ConvertInputs ==
    {[doc_id |-> Str("id1"), document |-> p[1], embedding |-> p[2],
      metadata |-> m, probe_intr |-> b] :
        p \in {<<Str("text"), ListOf("0.1")>>, <<NoneVal, NoneVal>>},
        m \in {MetaDict(f) : f \in MetadataDicts} \cup {MetaNone},
        b \in BOOLEAN}

\* the metadata entries the store of the driver run holds: the record of the
\* end-to-end scenario, a record stored without metadata, a timestamp past
\* the year 9999, and a string timestamp
StoreMetas ==
    {MetaDict([k \in {"session_id", "timestamp"} |->
                  IF k = "timestamp" THEN Num(19675) ELSE SrcVal(k)]),
     MetaNone,
     MetaDict([k \in {"timestamp"} |-> Num(2932897)]),
     MetaDict([k \in {"timestamp", "repository"} |->
                  IF k = "timestamp" THEN Str("2024-01-15T10:30:00Z") ELSE SrcVal(k)])}

\* sequences over S of length 0..n
SeqsUpTo(S, n) == UNION {[1..m -> S] : m \in 0..n}

\* the results collection.get can return with at most n records: the ids, and
\* documents, metadatas and embeddings lists that may be shorter than the ids
GetResults(n) ==
    UNION {{[ids |-> [j \in 1..m |-> [kind |-> "str", s |-> "id", n |-> j]],
             documents |-> [j \in 1..Len(ms) |-> Str("text")],
             embeddings |-> [j \in 1..Len(ms) |-> ListOf("0.1")],
             metadatas |-> ms] : ms \in SeqsUpTo(StoreMetas, m)} : m \in 0..n}

NoResults == [ids |-> << >>, documents |-> << >>, embeddings |-> << >>, metadatas |-> << >>]

\* ------------------------------------------------------------------------
\* State
\* ------------------------------------------------------------------------
VARIABLES
    pc,               \* where the driver is
    exit_code,        \* the process exit code, once pc = "exited"
    client,           \* self.client
    stats,            \* self.stats
    collection_names, \* export_all: collection_names
    ci,               \* export_all: position of the loop over collection_names
    all_chunks,       \* export_all: all_chunks
    results,          \* export_collection: results
    i,                \* export_collection: loop index
    chunks,           \* export_collection: chunks
    data,             \* main: data, the envelope export_all returned
    file,             \* the output file
    printed,          \* the counters print_summary printed, if any
    attempts,         \* history: the connection attempts, in order
    listed,           \* history: list_collections was called
    plog,             \* history: one entry per export_collection call
    failed_at,        \* history: indices of the current collection whose conversion raised
    errs0,            \* history: stats['errors'] when export_collection was entered
    interrupted,      \* history: a KeyboardInterrupt was delivered
    cause,            \* history: why the process exited
    cpc, cin, cout    \* SpecConvert: the call, its input and its result

cvars == <<cpc, cin, cout>>

pvars ==
    <<pc, exit_code, client, stats, collection_names, ci, all_chunks, results, i, chunks,
      data, file, printed, attempts, listed, plog, failed_at, errs0, interrupted, cause>>

vars == <<pvars, cvars>>

\* line 35-40
ZeroStats == [collections |-> 0, total_documents |-> 0, exported_chunks |-> 0, errors |-> 0]

\* get_export_metadata, and the envelope export_all returns
get_export_metadata(st) ==
    [export_timestamp |-> NowIso, source |-> "ChromaDB",
     target_format |-> "ConversationChunk", version |-> "1.0.0", stats |-> st]

Envelope(chs, st) == [chunks |-> chs, metadata |-> get_export_metadata(st)]

\* main has no envelope yet
NoData ==
    [chunks |-> << >>,
     metadata |-> [export_timestamp |-> NoneVal, source |-> "", target_format |-> "",
                   version |-> "", stats |-> ZeroStats]]

NoInput ==
    [doc_id |-> NoneVal, document |-> NoneVal, embedding |-> NoneVal,
     metadata |-> MetaNone, probe_intr |-> FALSE]

\* the driver's variables after ChromaDBExporter.__init__
InitDriver ==
    /\ pc = "main"
    /\ exit_code = 0
    /\ client = "None"
    /\ stats = ZeroStats
    /\ collection_names = << >>
    /\ ci = 0
    /\ all_chunks = << >>
    /\ results = NoResults
    /\ i = 0
    /\ chunks = << >>
    /\ data = NoData
    /\ file = [state |-> "absent", content |-> NoData]
    /\ printed = << >>
    /\ attempts = << >>
    /\ listed = FALSE
    /\ plog = << >>
    /\ failed_at = {}
    /\ errs0 = 0
    /\ interrupted = FALSE
    /\ cause = "none"

InitCall ==
    /\ cpc = "idle"
    /\ cin = NoInput
    /\ cout = Raised

Init == InitDriver /\ InitCall

\* ------------------------------------------------------------------------
\* Spec: the driver run
\* ------------------------------------------------------------------------
\* sys.exit(1) of lines 255, 266 and 269
Exit1(why) ==
    /\ pc' = "exited"
    /\ exit_code' = 1
    /\ cause' = why

\* lines 252-255: the source path is validated before any work
ValidatePath ==
    /\ pc = "main"
    /\ \E exists \in BOOLEAN :
          IF exists
          THEN pc' = "connect" /\ UNCHANGED <<exit_code, cause>>
          ELSE Exit1("missing_path")
    /\ UNCHANGED cvars
    /\ UNCHANGED <<client, stats, collection_names, ci, all_chunks, results, i, chunks,
                   data, file, printed, attempts, listed, plog, failed_at, errs0, interrupted>>

\* lines 53-55: the first attempt failed; the second one is tried
OnPrimaryFailureRaise == Exit1("connect")

OnPrimaryFailure == pc' = "connect_default" /\ UNCHANGED <<exit_code, cause>>

\* connect, lines 46-52: PersistentClient with Settings
ConnectPrimary ==
    /\ pc = "connect"
    /\ \E ok \in BOOLEAN :
          /\ attempts' = Append(attempts, [mode |-> "settings", ok |-> ok])
          /\ IF ok
             THEN /\ client' = "PersistentClient(settings)"
                  /\ pc' = "list"
                  /\ UNCHANGED <<exit_code, cause>>
             ELSE /\ client' = client
                  /\ OnPrimaryFailure
    /\ UNCHANGED cvars
    /\ UNCHANGED <<stats, collection_names, ci, all_chunks, results, i,
                   chunks, data, file, printed, listed, plog, failed_at, errs0, interrupted>>

\* connect, lines 53-61: PersistentClient with default settings; a second
\* failure is re-raised and reaches the except Exception of main
ConnectDefault ==
    /\ pc = "connect_default"
    /\ \E ok \in BOOLEAN :
          /\ attempts' = Append(attempts, [mode |-> "default", ok |-> ok])
          /\ IF ok
             THEN /\ client' = "PersistentClient(default)"
                  /\ pc' = "list"
                  /\ UNCHANGED <<exit_code, cause>>
             ELSE /\ client' = client
                  /\ Exit1("connect")
    /\ UNCHANGED cvars
    /\ UNCHANGED <<stats, collection_names, ci, all_chunks, results, i, chunks, data, file,
                   printed, listed, plog, failed_at, errs0, interrupted>>

\* line 171: the envelope export_all returns when there is no collection
EmptyExportMiscounted(st) == Envelope(<< >>, [st EXCEPT !.errors = @ + 1])

EmptyExport(st) == Envelope(<< >>, st)

\* list_collections, and lines 167-173 of export_all: a failure of
\* client.list_collections gives the empty list
ListCollections ==
    /\ pc = "list"
    /\ \E ok \in BOOLEAN, np \in 0..MaxParts :
          LET names == IF ok THEN [j \in 1..np |-> j] ELSE << >>
          IN /\ collection_names' = names
             /\ IF names = << >>
                THEN /\ data' = EmptyExport(stats)
                     /\ pc' = "save"
                     /\ ci' = ci
                ELSE /\ data' = data
                     /\ pc' = "open"
                     /\ ci' = 1
    /\ listed' = TRUE
    /\ all_chunks' = << >>
    /\ UNCHANGED cvars
    /\ UNCHANGED <<exit_code, cause, client, stats, results, i, chunks, file, printed,
                   attempts, plog, failed_at, errs0, interrupted>>

\* line 151: the handler of a record's exception
OnRecordErrorUncounted(st) == st

OnRecordError(st) == [st EXCEPT !.errors = @ + 1]

\* line 159: the handler of a collection's exception
OnCollectionErrorUncounted(st) == st

OnCollectionError(st) == [st EXCEPT !.errors = @ + 1]

\* line 153: the documents of a collection are counted once its loop is over
CountDocumentsExported(st, doc_count, produced) ==
    [st EXCEPT !.total_documents = @ + produced]

CountDocuments(st, doc_count, produced) == [st EXCEPT !.total_documents = @ + doc_count]

\* lines 176-186 of export_all once export_collection has returned ret with
\* the counters st: extend all_chunks, count the collection, go on with the
\* next collection or return the envelope.  The call is logged in plog.
AfterCollection(ret, st, opened, doc_count, failed, before) ==
    LET st2 == [st EXCEPT !.collections = @ + 1]
    IN /\ all_chunks' = all_chunks \o ret
       /\ stats' = st2
       /\ plog' = Append(plog, [name |-> collection_names[ci], opened |-> opened,
                                doc_count |-> doc_count, failed |-> failed,
                                returned |-> Len(ret), errors_before |-> before,
                                errors_after |-> st.errors])
       /\ IF ci < Len(collection_names)
          THEN ci' = ci + 1 /\ pc' = "open" /\ data' = data
          ELSE ci' = ci /\ pc' = "save" /\ data' = Envelope(all_chunks \o ret, st2)

\* export_collection, lines 125-135 and 157-160: get_collection and
\* collection.get; when either raises the call counts one error and returns []
OpenCollection ==
    /\ pc = "open"
    /\ \E outcome \in {"ok", "get_collection_raises", "get_raises"} :
          IF outcome = "ok"
          THEN /\ \E r \in GetResults(MaxDocs - stats.total_documents) : results' = r
               /\ pc' = "record"
               /\ UNCHANGED <<stats, all_chunks, ci, data, plog>>
          ELSE /\ AfterCollection(<< >>, OnCollectionError(stats), FALSE, 0, {},
                                  stats.errors)
               /\ results' = results
    /\ i' = 0
    /\ chunks' = << >>
    /\ failed_at' = {}
    /\ errs0' = stats.errors
    /\ UNCHANGED cvars
    /\ UNCHANGED <<exit_code, cause, client, collection_names, file, printed, attempts,
                   listed, interrupted>>

\* lines 139-142: the fields of record j (0-based), with the positional fallbacks
RecordAt(r, j) ==
    [doc_id |-> IF j < Len(r.ids) THEN r.ids[j + 1]
                ELSE [kind |-> "str", s |-> "doc_", n |-> j],
     document |-> IF j < Len(r.documents) THEN r.documents[j + 1] ELSE Str(""),
     metadata |-> IF j < Len(r.metadatas) THEN r.metadatas[j + 1] ELSE MetaDict(EmptyDict),
     embedding |-> IF j < Len(r.embeddings) THEN r.embeddings[j + 1] ELSE EmptyList]

\* line 87 runs for this record: its timestamp is a string
RunsProbe(rec) ==
    /\ rec.metadata.kind = "dict"
    /\ Get(rec.metadata.d, "timestamp", NoneVal).kind = "str"

\* lines 137-151: one iteration of the loop over the records; an exception of
\* the conversion is caught, counted and the record skipped
ProcessRecord ==
    /\ pc = "record"
    /\ i < Len(results.ids)
    /\ \E probe_intr \in BOOLEAN :
          LET rec == RecordAt(results, i)
              res == convert_to_conversation_chunk(rec.doc_id, rec.document, rec.metadata,
                                                   rec.embedding, probe_intr)
          IN /\ probe_intr => RunsProbe(rec)
             /\ interrupted' = (interrupted \/ probe_intr)
             /\ failed_at' = IF res.raised THEN failed_at \cup {i} ELSE failed_at
             /\ IF res.raised
                THEN /\ stats' = OnRecordError(stats)
                     /\ chunks' = chunks
                ELSE /\ stats' = [stats EXCEPT !.exported_chunks = @ + 1]
                     /\ chunks' = Append(chunks, res.chunk)
    /\ i' = i + 1
    /\ UNCHANGED cvars
    /\ UNCHANGED <<pc, exit_code, cause, client, collection_names, ci, all_chunks, results,
                   data, file, printed, attempts, listed, plog, errs0>>

\* lines 153-155: the loop is over; count the documents and return the chunks
FinishCollection ==
    /\ pc = "record"
    /\ i = Len(results.ids)
    /\ AfterCollection(chunks, CountDocuments(stats, Len(results.ids), Len(chunks)),
                       TRUE, Len(results.ids), failed_at, errs0)
    /\ results' = NoResults
    /\ i' = 0
    /\ chunks' = << >>
    /\ failed_at' = {}
    /\ UNCHANGED cvars
    /\ UNCHANGED <<exit_code, cause, client, collection_names, file, printed, attempts,
                   listed, interrupted, errs0>>

\* save_to_file: mkdir or open can fail before the file is touched, the dump
\* can fail part way; both are re-raised and reach the except Exception of main
SaveToFile ==
    /\ pc = "save"
    /\ \E outcome \in {"ok", "open_fails", "dump_fails"} :
          /\ file' = CASE outcome = "ok" -> [state |-> "complete", content |-> data]
                       [] outcome = "dump_fails" -> [state |-> "partial", content |-> data]
                       [] OTHER -> file
          /\ IF outcome = "ok"
             THEN pc' = "summary" /\ UNCHANGED <<exit_code, cause>>
             ELSE Exit1("write")
    /\ UNCHANGED cvars
    /\ UNCHANGED <<client, stats, collection_names, ci, all_chunks, results, i, chunks, data,
                   printed, attempts, listed, plog, failed_at, errs0, interrupted>>

\* lines 221-224: the counters print_summary prints
SummaryCountersOnlyClean(st) == IF st.errors > 0 THEN << >> ELSE <<st>>

SummaryCounters(st) == <<st>>

\* print_summary, then the end of main: a print can fail before the counters
\* are out, and so can the stat() of line 226 after them
PrintSummary ==
    /\ pc = "summary"
    /\ \E outcome \in {"ok", "print_fails", "stat_fails"} :
          /\ printed' = IF outcome = "print_fails" THEN printed ELSE SummaryCounters(stats)
          /\ pc' = "exited"
          /\ exit_code' = IF outcome = "ok" THEN 0 ELSE 1
          /\ cause' = IF outcome = "ok" THEN "none" ELSE "other"
    /\ UNCHANGED cvars
    /\ UNCHANGED <<client, stats, collection_names, ci, all_chunks, results, i, chunks, data,
                   file, attempts, listed, plog, failed_at, errs0, interrupted>>

\* a KeyboardInterrupt inside the try of main, outside line 87: no except
\* Exception catches it, so it reaches line 264
Interrupt ==
    /\ pc \in {"connect", "connect_default", "list", "open", "record", "save", "summary"}
    /\ interrupted' = TRUE
    /\ Exit1("interrupt")
    /\ UNCHANGED cvars
    /\ UNCHANGED <<client, stats, collection_names, ci, all_chunks, results, i, chunks, data,
                   file, printed, attempts, listed, plog, failed_at, errs0>>

Next ==
    \/ ValidatePath
    \/ ConnectPrimary
    \/ ConnectDefault
    \/ ListCollections
    \/ OpenCollection
    \/ ProcessRecord
    \/ FinishCollection
    \/ SaveToFile
    \/ PrintSummary
    \/ Interrupt

Spec == Init /\ [][Next]_vars

\* ------------------------------------------------------------------------
\* SpecConvert: one call of convert_to_conversation_chunk
\* ------------------------------------------------------------------------
InitConvert ==
    /\ InitDriver
    /\ cpc = "call"
    /\ cin \in {x \in ConvertInputs :
                  x.probe_intr => (x.metadata.kind = "dict"
                                   /\ Get(x.metadata.d, "timestamp", NoneVal).kind = "str")}
    /\ cout = Raised

Convert ==
    /\ cpc = "call"
    /\ cout' = convert_to_conversation_chunk(cin.doc_id, cin.document, cin.metadata,
                                              cin.embedding, cin.probe_intr)
    /\ cpc' = IF cout'.raised THEN "raised" ELSE "returned"
    /\ UNCHANGED <<cin, pvars>>

NextConvert == Convert

SpecConvert == InitConvert /\ [][NextConvert]_vars

\* ------------------------------------------------------------------------
\* Properties
\* ------------------------------------------------------------------------
RECURSIVE SumOver(_, _)
\* the sum of f[j] over j in 1..Len(f)
SumOver(f, n) == IF n = 0 THEN 0 ELSE f[n] + SumOver(f, n - 1)

\* per export_collection call: records that raised, partition failures, chunks returned
RecordFailures == SumOver([j \in 1..Len(plog) |-> Cardinality(plog[j].failed)], Len(plog))

PartitionFailures ==
    SumOver([j \in 1..Len(plog) |-> IF plog[j].opened THEN 0 ELSE 1], Len(plog))

ChunksReturned == SumOver([j \in 1..Len(plog) |-> plog[j].returned], Len(plog))

\* export_all has returned its envelope to main
ExportReturned == data # NoData

\* C1: in a collection whose query succeeded with N records of which the set
\* F failed conversion, export_collection returns N - |F| chunks and the error
\* counter grows by |F|; inside the loop, after i records, i - |F| chunks are
\* collected, so a failure never stops the loop.
C1_PerRecordIsolation ==
    /\ \A j \in 1..Len(plog) :
          plog[j].opened =>
             /\ plog[j].returned = plog[j].doc_count - Cardinality(plog[j].failed)
             /\ plog[j].errors_after = plog[j].errors_before + Cardinality(plog[j].failed)
    /\ pc = "record" =>
          /\ Len(chunks) = i - Cardinality(failed_at)
          /\ stats.errors = errs0 + Cardinality(failed_at)

\* a collection of three records whose first record failed and whose two
\* later records were exported
C1_Witness ==
    \E j \in 1..Len(plog) :
        /\ plog[j].opened
        /\ plog[j].doc_count = 3
        /\ plog[j].failed = {0}
        /\ plog[j].returned = 2

\* C2: a collection that cannot be opened or queried returns no chunk and
\* counts exactly one error; export_all goes on, so that its envelope holds
\* the chunks of every collection, one call per enumerated collection.
C2_PartitionIsolation ==
    /\ \A j \in 1..Len(plog) :
          ~plog[j].opened =>
             /\ plog[j].returned = 0
             /\ plog[j].errors_after = plog[j].errors_before + 1
    /\ cause \notin {"interrupt", "connect", "missing_path"} /\ pc \in {"save", "summary", "exited"} =>
          /\ ExportReturned
          /\ Len(plog) = Len(collection_names)
          /\ Len(data.chunks) = ChunksReturned

\* a run that exited 0 after a failed collection followed by a collection
\* that exported a chunk
C2_Witness ==
    /\ pc = "exited"
    /\ exit_code = 0
    /\ file.state = "complete"
    /\ Len(plog) = 2
    /\ ~plog[1].opened
    /\ plog[2].opened
    /\ plog[2].returned > 0
    /\ Len(file.content.chunks) = plog[2].returned

\* the value is an ISO-8601 string: a rendering of isoformat(), or a string
\* datetime.fromisoformat accepted
IsIso8601(v) ==
    /\ v.kind = "str"
    /\ \/ v.s \in {"isoformat", "now"}
       \/ FromIsoformatOk(ReplaceZ(Tokens(v.s)))

\* C3: for a source timestamp of any kind the conversion does not raise and
\* the chunk's timestamp is an ISO-8601 string.
C3_TimestampNeverRaises ==
    (cpc # "call" /\ cin.metadata.kind = "dict") =>
        (~cout.raised /\ IsIso8601(cout.chunk.timestamp))

\* the chunk carries the default of every field
HasDefaults(c) ==
    /\ c.session_id = Str("migrated")
    /\ c.type = Str("discussion")
    /\ c.summary = Str("")
    /\ c.metadata.repository = Str("migrated")
    /\ c.metadata.branch = Str("main")
    /\ c.metadata.files_modified = EmptyList
    /\ c.metadata.tools_used = EmptyList
    /\ c.metadata.outcome = Str("success")
    /\ c.metadata.tags = EmptyList
    /\ c.metadata.difficulty = Str("simple")
    /\ DOMAIN c.metadata.extended_metadata = {}
    /\ c.related_chunks = EmptyList

\* the store result has no metadata for record j: no entry, or None
MissingMetadata(r, j) == j >= Len(r.metadatas) \/ r.metadatas[j + 1].kind = "none"

\* C4: a record without metadata in the store result is exported, and its
\* chunk carries the default of every field.
C4_MissingMetadataDefaults ==
    (pc = "record" /\ i > 0 /\ MissingMetadata(results, i - 1)) =>
        /\ (i - 1) \notin failed_at
        /\ Len(chunks) > 0
        /\ chunks[Len(chunks)].id = results.ids[i]
        /\ HasDefaults(chunks[Len(chunks)])

\* C5: the exit code is 0 exactly when the run completed and wrote the
\* output file, whatever the error counter; it is 1 for a missing path, a
\* failed connection, a failed write, a user interrupt and any other error.
C5_ExitCode ==
    pc = "exited" =>
        /\ exit_code = 0 <=> (file.state = "complete" /\ cause = "none")
        /\ cause \in {"missing_path", "connect", "write", "interrupt", "other"} => exit_code = 1
        /\ interrupted => exit_code = 1

\* C6 as stated: every run, whichever way it ends, has printed the summary.
C6_SummaryAlwaysPrinted == pc = "exited" => printed # << >>

\* C6 as amended: a run that exits 0 has printed the four counters, and they
\* are the counters of the envelope it wrote; the summary is printed only
\* after the output file is complete.
C6_SummaryOnSuccess ==
    /\ (pc = "exited" /\ exit_code = 0) => printed = <<stats>>
    /\ printed # << >> =>
          /\ file.state = "complete"
          /\ printed = <<file.content.metadata.stats>>

\* a run with errors that exited 0 and printed its summary
C6_Witness ==
    /\ pc = "exited"
    /\ exit_code = 0
    /\ printed # << >>
    /\ printed[1].errors > 0

\* C7: the default-settings attempt is made only after the Settings attempt
\* failed; the failure propagates only when both failed, and then nothing is
\* listed, exported or written and the exit code is 1; list_collections runs
\* only with the client set.
C7_ConnectFallback ==
    /\ Len(attempts) <= 2
    /\ Len(attempts) >= 1 => attempts[1].mode = "settings"
    /\ Len(attempts) = 2 => (~attempts[1].ok /\ attempts[2].mode = "default")
    /\ cause = "connect" => (Len(attempts) = 2 /\ ~attempts[1].ok /\ ~attempts[2].ok)
    /\ (Len(attempts) = 2 /\ ~attempts[2].ok) =>
          /\ pc = "exited"
          /\ exit_code = 1
          /\ ~listed
          /\ plog = << >>
          /\ file.state = "absent"
          /\ client = "None"
    /\ (listed \/ pc = "list") =>
          /\ client # "None"
          /\ attempts[Len(attempts)].ok

\* both attempts failed
C7_Witness ==
    /\ Len(attempts) = 2
    /\ ~attempts[1].ok
    /\ ~attempts[2].ok
    /\ pc = "exited"

\* C8: with no collection found export_all returns an envelope with no chunk
\* and counters all zero; the run can then only end by exit 0 with that
\* envelope in the output file, or by a failed write, a failed print or an
\* interrupt.
C8_NoPartitions ==
    (listed /\ collection_names = << >>) =>
        /\ ExportReturned
        /\ data.chunks = << >>
        /\ data.metadata = get_export_metadata(ZeroStats)
        /\ stats = ZeroStats
        /\ plog = << >>
        /\ pc = "exited" => (exit_code = 0 \/ cause \in {"write", "other", "interrupt"})
        /\ (pc = "exited" /\ exit_code = 0) =>
              /\ file = [state |-> "complete", content |-> Envelope(<< >>, ZeroStats)]
              /\ printed = <<ZeroStats>>

\* a run over a store without collections that exited 0
C8_Witness ==
    /\ listed
    /\ collection_names = << >>
    /\ pc = "exited"
    /\ exit_code = 0
    /\ file.state = "complete"

\* C9: the extended_metadata of a chunk has exactly the keys of the source
\* metadata that are not reserved, each with its source value.
C9_ExtendedMetadata ==
    cpc = "returned" =>
        LET md == cin.metadata.d
            em == cout.chunk.metadata.extended_metadata
        IN /\ (DOMAIN em) \cap ReservedKeys = {}
           /\ DOMAIN em = (DOMAIN md) \ ReservedKeys
           /\ \A k \in DOMAIN em : em[k] = md[k]

\* a source metadata with every reserved key and with other keys
C9_Witness ==
    /\ cpc = "returned"
    /\ ReservedKeys \subseteq DOMAIN cin.metadata.d
    /\ {"custom", "session_id", "timestamp"} \subseteq
          DOMAIN cout.chunk.metadata.extended_metadata

\* C10: in the envelope of a completed export_all, chunks produced is the
\* number of chunks, documents seen is chunks produced plus the records that
\* failed, errors is record failures plus collection failures, and
\* collections processed is the number of collections enumerated.
C10_CounterConsistency ==
    ExportReturned =>
        LET st == data.metadata.stats
        IN /\ st.exported_chunks = Len(data.chunks)
           /\ st.total_documents = st.exported_chunks + RecordFailures
           /\ st.errors = RecordFailures + PartitionFailures
           /\ st.collections = Len(collection_names)
           /\ st = stats

\* a completed export with a failed collection, a failed record and a chunk
C10_Witness ==
    /\ ExportReturned
    /\ PartitionFailures > 0
    /\ RecordFailures > 0
    /\ Len(data.chunks) > 0
    /\ pc = "exited"
    /\ exit_code = 0

====
